---------------------------- MODULE Spec2Model ----------------------------
(***************************************************************************)
(* Ecommerce_User_Behavior_Analysis_Dashboard.py as a state machine.       *)
(*                                                                         *)
(* The script is one Streamlit run from top to bottom: every section is    *)
(* one action, pc names the section about to execute, and an uncaught      *)
(* exception halts the run (pc = "failed").  A widget interaction reruns   *)
(* the script from the top with the cached data frame.                     *)
(***************************************************************************)
EXTENDS Integers, Sequences, FiniteSets

VARIABLES
    df,                 \* load_data(): the cached frame, a sequence of rows
    seededStream,       \* the draws numpy's RandomState yields for the fixed seed
    widget,             \* the sidebar multiselect: touched by the user, and its value
    run,                \* number of the script run in progress
    prev,               \* outputs of the previous script run (history)
    pc,                 \* section of the script about to execute
    error,              \* the exception that halted the run, or "none"
    selected_behaviors,
    raw_table,          \* st.dataframe of the raw dataset
    rfm,                \* the RFM table, one record per row
    rfm_scaled,         \* MinMaxScaler output, one <<recency, frequency, monetary>> per row
    cluster,            \* rfm['cluster'], <<>> while the column does not exist
    segment,            \* rfm['segment'], <<>> while the column does not exist
    segment_counts,
    segment_summary,
    daily_counts,
    monthly_counts,
    csv_data,           \* the rows offered by the clustered-data download button
    charts              \* the figures rendered so far, in order

vars == <<df, seededStream, widget, run, prev, pc, error, selected_behaviors,
          raw_table, rfm, rfm_scaled, cluster, segment, segment_counts,
          segment_summary, daily_counts, monthly_counts, csv_data, charts>>

-----------------------------------------------------------------------------
(* Bounds of the model.                                                    *)

MaxUser == 5            \* user ids are 1..MaxUser
MaxHalfDays == 2        \* timestamps are 0, 12h, ..., MaxHalfDays * 12h
MaxFreq == 10           \* buy records of the heaviest buyer
MaxStream == 1          \* random streams are 0..MaxStream
MaxRuns == 2            \* script runs per session

-----------------------------------------------------------------------------
(* Exact rational arithmetic for the float columns.                        *)

Abs(x) == IF x < 0 THEN -x ELSE x

RECURSIVE Gcd(_, _)
Gcd(a, b) == IF b = 0 THEN a ELSE Gcd(b, a % b)

Q(n, d) ==
    LET s == IF d < 0 THEN -1 ELSE 1
        g == Gcd(Abs(n), Abs(d))
    IN  [n |-> (s * n) \div g, d |-> (s * d) \div g]

QInt(x) == [n |-> x, d |-> 1]
Lcm(a, b) == (a \div Gcd(a, b)) * b
QAdd(a, b) ==
    LET l == Lcm(a.d, b.d) IN Q(a.n * (l \div a.d) + b.n * (l \div b.d), l)
QNeg(a) == [n |-> -a.n, d |-> a.d]
QSub(a, b) == QAdd(a, QNeg(b))
QMul(a, b) ==
    LET g1 == Gcd(Abs(a.n), b.d)
        g2 == Gcd(Abs(b.n), a.d)
    IN  Q((a.n \div g1) * (b.n \div g2), (a.d \div g2) * (b.d \div g1))
QInv(a) == Q(a.d, a.n)
QLess(a, b) == a.n * b.d < b.n * a.d
QLeq(a, b) == a.n * b.d <= b.n * a.d

RECURSIVE QSum(_)
QSum(s) == IF s = <<>> THEN QInt(0) ELSE QAdd(Head(s), QSum(Tail(s)))

\* round(2): hundredths of q, ties to the even hundredth
Round2(q) ==
    LET t == q.n * 100
        fl == t \div q.d
        rem2 == 2 * (t % q.d)
    IN  IF rem2 < q.d THEN fl
        ELSE IF rem2 > q.d THEN fl + 1
        ELSE IF fl % 2 = 0 THEN fl ELSE fl + 1

-----------------------------------------------------------------------------
(* Sequences and sets.                                                     *)

SetMax(S) == CHOOSE x \in S : \A y \in S : y <= x
SetMin(S) == CHOOSE x \in S : \A y \in S : x <= y

RECURSIVE SortedSeq(_)
SortedSeq(S) ==
    IF S = {} THEN <<>> ELSE LET m == SetMin(S) IN <<m>> \o SortedSeq(S \ {m})

Range(s) == {s[i] : i \in DOMAIN s}

-----------------------------------------------------------------------------
(* LOAD DATA: the frames load_data() can return.                           *)

SecondsPerDay == 86400
HalfDay == SecondsPerDay \div 2
Timestamps == {k * HalfDay : k \in 0..MaxHalfDays}
MaxT == MaxHalfDays * HalfDay
Users == 1..MaxUser
Streams == 0..MaxStream

Row(u, b, t) == [user_id |-> u, behavior_type |-> b, timestamp |-> t]

\* n buy records of user u, the latest of them at t and not the last row
Buys(u, n, t) ==
    [i \in 1..n |-> Row(u, "buy", IF i = (n + 1) \div 2 THEN t ELSE 0)]

\* how many purchases a purchasing user may have: user 1 is the heavy buyer,
\* user 2 a repeat buyer
FreqChoices(u) == IF u = 1 THEN {1, MaxFreq} ELSE IF u = 2 THEN {1, 2} ELSE {1}

\* The rows one user can contribute to the file: none, purchases, and for
\* users 1 and 2 a page view only, later than any purchase.
Histories(u) ==
    {<<>>}
        \cup {Buys(u, n, t) : n \in FreqChoices(u), t \in Timestamps}
        \cup (IF u <= 2 THEN {<<Row(u, "pv", MaxT + HalfDay)>>} ELSE {})

\* pd.read_csv(...) then pd.to_datetime(unit='s'): the rows in file order, the
\* file holding the histories of users 1..u one after the other.
RECURSIVE load_data(_)
load_data(u) ==
    IF u = 0 THEN {<<>>}
    ELSE {d \o h : d \in load_data(u - 1), h \in Histories(u)}

-----------------------------------------------------------------------------
(* SIDEBAR and raw dataset                                                 *)

\* df['behavior_type'].unique()
behavior_types == {df[i].behavior_type : i \in DOMAIN df}

InSelection(r) == r.behavior_type \in selected_behaviors

\* df[df['behavior_type'].isin(selected_behaviors)].head(100000)
RawTable == SelectSeq(df, InSelection)

-----------------------------------------------------------------------------
(* RFM ANALYSIS                                                            *)

NaT == -1

IsBuy(r) == r.behavior_type = "buy"

\* the frame filtered by the sidebar selection, then by 'buy'
buy_df_of_selection == SelectSeq(RawTable, IsBuy)

\* buy_df = df[df['behavior_type'] == 'buy']
buy_df == SelectSeq(df, IsBuy)

TimestampMax(d) ==
    IF d = <<>> THEN NaT ELSE SetMax({d[i].timestamp : i \in DOMAIN d})

\* the latest timestamp of the whole frame, purchases or not
reference_date_of_df == TimestampMax(df)

\* reference_date = buy_df['timestamp'].max()
reference_date == TimestampMax(buy_df)

GroupRows(u) == {j \in DOMAIN buy_df : buy_df[j].user_id = u}

\* groupby("user_id").agg({'timestamp': ['max', ...]}) for one group
LastPurchaseDate(u) == SetMax({buy_df[j].timestamp : j \in GroupRows(u)})

\* agg 'nunique' in place of 'count'
DistinctTimestamps(u) == Cardinality({buy_df[j].timestamp : j \in GroupRows(u)})

\* groupby("user_id").agg({'timestamp': [..., 'count']}) for one group
Frequency(u) == Cardinality(GroupRows(u))

\* groupby keys: the distinct user ids of buy_df, ascending
GroupKeys == SortedSeq({buy_df[i].user_id : i \in DOMAIN buy_df})

\* (reference_date - last_purchase_date).dt.days
Recency(ref, last) == (ref - last) \div SecondsPerDay

\* frequency * (98 / 3.4), the float 3.4 read as 34/10
MonetaryNum == 980
MonetaryDen == 34
\* frequency * (100 / 3.4)
MonetaryOfHundred(f) == QMul(QInt(f), Q(1000, MonetaryDen))

Monetary(f) == QMul(QInt(f), Q(MonetaryNum, MonetaryDen))

RfmTable ==
    [i \in DOMAIN GroupKeys |->
        LET u == GroupKeys[i]
            last == LastPurchaseDate(u)
            f == Frequency(u)
        IN  [user_id |-> u,
             last_purchase_date |-> last,
             frequency |-> f,
             recency |-> Recency(reference_date, last),
             monetary |-> Monetary(f)]]

-----------------------------------------------------------------------------
(* CLUSTERING: MinMaxScaler                                                *)

Columns == 1..3

\* rfm[['recency', 'frequency', 'monetary']].copy()
RfmNorm(t) ==
    [i \in DOMAIN t |-> <<QInt(t[i].recency), QInt(t[i].frequency), t[i].monetary>>]

DataMin(X, c) == CHOOSE m \in {X[i][c] : i \in DOMAIN X} :
                    \A i \in DOMAIN X : QLeq(m, X[i][c])
DataMax(X, c) == CHOOSE m \in {X[i][c] : i \in DOMAIN X} :
                    \A i \in DOMAIN X : QLeq(X[i][c], m)

\* sklearn's _handle_zeros_in_scale: a zero range scales by 1
HandleZeros(r) == IF r.n = 0 THEN QInt(1) ELSE r

\* a scaler that divides by the column maximum, not by the range
ScaleByMax(X, c) == QInv(HandleZeros(DataMax(X, c)))

\* scale_ = (1 - 0) / handle_zeros(data_max - data_min)
ScaleOf(X, c) == QInv(HandleZeros(QSub(DataMax(X, c), DataMin(X, c))))

\* min_ = 0 - data_min * scale_
MinOf(X, c) == QNeg(QMul(DataMin(X, c), ScaleOf(X, c)))

\* transform: X * scale_ + min_
MinMaxScale(X) ==
    [i \in DOMAIN X |->
        [c \in Columns |-> QAdd(QMul(X[i][c], ScaleOf(X, c)), MinOf(X, c))]]

-----------------------------------------------------------------------------
(* CLUSTERING: KMeans(n_clusters=4, random_state=42).fit_predict           *)

n_clusters == 4
max_iter == 300

RemoveAt(s, i) == [j \in 1..(Len(s) - 1) |-> IF j < i THEN s[j] ELSE s[j + 1]]

\* k distinct sample indices drawn with the stream r from those remaining
RECURSIVE Draw(_, _, _)
Draw(remaining, r, k) ==
    IF k = 0 THEN <<>>
    ELSE LET i == (r % Len(remaining)) + 1
         IN  <<remaining[i]>> \o Draw(RemoveAt(remaining, i), r, k - 1)

\* the initial centres: n_clusters samples chosen by the random stream
RECURSIVE Take(_, _, _)
Take(X, idx, k) == IF k = 0 THEN <<>> ELSE Append(Take(X, idx, k - 1), X[idx[k]])

InitCentres(X, r) == Take(X, Draw([i \in 1..Len(X) |-> i], r, n_clusters), n_clusters)

QSq(a) == QMul(a, a)

\* squared Euclidean distance over the three columns
Dist2(p, c) ==
    QAdd(QAdd(QSq(QSub(p[1], c[1])), QSq(QSub(p[2], c[2]))), QSq(QSub(p[3], c[3])))

RECURSIVE Distances(_, _, _)
Distances(p, centres, k) ==
    IF k = 0 THEN <<>>
    ELSE Append(Distances(p, centres, k - 1), Dist2(p, centres[k]))

\* argmin over the centres, the lowest index on a tie
Nearest(p, centres) ==
    LET d == Distances(p, centres, n_clusters)
    IN  CHOOSE k \in 1..n_clusters :
            \A j \in 1..n_clusters :
                QLess(d[k], d[j]) \/ (d[k] = d[j] /\ k <= j)

\* the E-step: the nearest centre of samples 1..n
RECURSIVE Assign(_, _, _)
Assign(X, centres, n) ==
    IF n = 0 THEN <<>>
    ELSE Append(Assign(X, centres, n - 1), Nearest(X[n], centres))

Members(a, k) == SortedSeq({i \in DOMAIN a : a[i] = k})

ColumnMean(X, m, c) == QMul(QSum([j \in DOMAIN m |-> X[m[j]][c]]), Q(1, Len(m)))

\* the mean of the samples assigned to centre k, the centre kept when none is
Mean(X, a, k, old) ==
    LET m == Members(a, k)
    IN  IF m = <<>> THEN old
        ELSE <<ColumnMean(X, m, 1), ColumnMean(X, m, 2), ColumnMean(X, m, 3)>>

\* the M-step: centres 1..k recomputed
RECURSIVE Update(_, _, _, _)
Update(X, a, centres, k) ==
    IF k = 0 THEN <<>>
    ELSE Append(Update(X, a, centres, k - 1), Mean(X, a, k, centres[k]))

RECURSIVE Lloyd(_, _, _)
Lloyd(X, centres, iter) ==
    LET a == Assign(X, centres, Len(X))
        new == Update(X, a, centres, n_clusters)
    IN  IF new = centres \/ iter >= max_iter THEN Assign(X, new, Len(X))
        ELSE Lloyd(X, new, iter + 1)

\* labels 0..n_clusters-1, one per sample
fit_predict(X, r) ==
    LET a == Lloyd(X, InitCentres(X, r), 1) IN [i \in DOMAIN X |-> a[i] - 1]

\* random_state=None: a fresh stream on every construction
UnseededStreams == Streams

\* random_state=42: the stream of that seed, the same on every construction
RandomStreams == {seededStream}

-----------------------------------------------------------------------------
(* SEGMENT LABELING, BAR PLOT, SEGMENT SUMMARY                             *)

\* a table that leaves the last cluster id out
labels_without_last ==
    [c \in 0..2 |-> CASE c = 0 -> "VIP" [] c = 1 -> "Churn Risk" [] c = 2 -> "Loyal"]

\* labels = {0: 'VIP', 1: 'Churn Risk', 2: 'Loyal', 3: 'At_Risk'}
labels == [c \in 0..3 |->
             CASE c = 0 -> "VIP" [] c = 1 -> "Churn Risk"
               [] c = 2 -> "Loyal" [] c = 3 -> "At_Risk"]

\* Series.map(dict): NaN for a key the dict lacks
MapLabels(dict, col) ==
    [i \in DOMAIN col |-> IF col[i] \in DOMAIN dict THEN dict[col[i]] ELSE "NaN"]

\* value_counts(): the values present (NaN dropped) with their counts
ValueCounts(col) ==
    [v \in Range(col) \ {"NaN"} |-> Cardinality({i \in DOMAIN col : col[i] = v})]

QMean(s) == QMul(QSum(s), Q(1, Len(s)))

\* rfm.groupby('segment')[['recency','frequency','monetary']].mean().round(2),
\* in hundredths
SegmentSummary(t, seg) ==
    [v \in Range(seg) \ {"NaN"} |->
        LET m == SortedSeq({i \in DOMAIN seg : seg[i] = v})
        IN  [recency |-> Round2(QMean([j \in DOMAIN m |-> QInt(t[m[j]].recency)])),
             frequency |-> Round2(QMean([j \in DOMAIN m |-> QInt(t[m[j]].frequency)])),
             monetary |-> Round2(QMean([j \in DOMAIN m |-> t[m[j]].monetary]))]]

-----------------------------------------------------------------------------
(* TIME SERIES ANALYSIS                                                    *)

\* timestamp.dt.date, as days since the epoch
DateOf(ts) == ts \div SecondsPerDay

\* days of 1970 before each month starts
MonthStarts == <<0, 31, 59, 90, 120, 151, 181, 212, 243, 273, 304, 334>>

\* timestamp.dt.to_period('M'), for the dates of 1970
MonthOf(ts) == Cardinality({m \in DOMAIN MonthStarts : MonthStarts[m] <= DateOf(ts)})

\* df_filtered = df[df['behavior_type'] == 'buy']
df_filtered == SelectSeq(df, IsBuy)

\* df_filtered.groupby('date').size()
DailyCounts ==
    [d \in {DateOf(df_filtered[i].timestamp) : i \in DOMAIN df_filtered} |->
        Cardinality({i \in DOMAIN df_filtered : DateOf(df_filtered[i].timestamp) = d})]

\* df_filtered.groupby('month').size()
MonthlyCounts ==
    [m \in {MonthOf(df_filtered[i].timestamp) : i \in DOMAIN df_filtered} |->
        Cardinality({i \in DOMAIN df_filtered : MonthOf(df_filtered[i].timestamp) = m})]

\* rfm.to_csv(index=False): the table with its cluster and segment columns
ClusteredRows ==
    [i \in DOMAIN rfm |->
        [user_id |-> rfm[i].user_id,
         last_purchase_date |-> rfm[i].last_purchase_date,
         frequency |-> rfm[i].frequency,
         recency |-> rfm[i].recency,
         monetary |-> rfm[i].monetary,
         cluster |-> cluster[i],
         segment |-> segment[i]]]

-----------------------------------------------------------------------------
(* The script, section by section.                                         *)

NoPrev ==
    [pc |-> "none", error |-> "none", selected_behaviors |-> {}, rfm |-> <<>>,
     cluster |-> <<>>, segment |-> <<>>, segment_summary |-> <<>>,
     daily_counts |-> <<>>, monthly_counts |-> <<>>]

Init ==
    /\ df \in load_data(MaxUser)
    /\ seededStream \in Streams
    /\ widget = [touched |-> FALSE, value |-> {}]
    /\ run = 1
    /\ prev = NoPrev
    /\ pc = "sidebar"
    /\ error = "none"
    /\ selected_behaviors = {}
    /\ raw_table = <<>>
    /\ rfm = <<>>
    /\ rfm_scaled = <<>>
    /\ cluster = <<>>
    /\ segment = <<>>
    /\ segment_counts = <<>>
    /\ segment_summary = <<>>
    /\ daily_counts = <<>>
    /\ monthly_counts = <<>>
    /\ csv_data = <<>>
    /\ charts = <<>>

session == <<df, seededStream, widget, run, prev>>

\* st.sidebar.multiselect("Select Behaviors", behavior_types, default=behavior_types)
Sidebar ==
    /\ pc = "sidebar"
    /\ selected_behaviors' = IF widget.touched THEN widget.value ELSE behavior_types
    /\ pc' = "raw"
    /\ UNCHANGED <<session, error, raw_table, rfm, rfm_scaled, cluster, segment,
                   segment_counts, segment_summary, daily_counts, monthly_counts,
                   csv_data, charts>>

\* st.dataframe(df[df['behavior_type'].isin(selected_behaviors)].head(100000))
RawDataset ==
    /\ pc = "raw"
    /\ raw_table' = RawTable
    /\ pc' = "rfm"
    /\ UNCHANGED <<session, error, selected_behaviors, rfm, rfm_scaled, cluster,
                   segment, segment_counts, segment_summary, daily_counts,
                   monthly_counts, csv_data, charts>>

RFMAnalysis ==
    /\ pc = "rfm"
    /\ rfm' = RfmTable
    /\ pc' = "hist"
    /\ UNCHANGED <<session, error, selected_behaviors, raw_table, rfm_scaled,
                   cluster, segment, segment_counts, segment_summary, daily_counts,
                   monthly_counts, csv_data, charts>>

\* three ax.hist(...) and st.pyplot(fig); an empty column draws empty axes
Histograms ==
    /\ pc = "hist"
    /\ charts' = Append(charts, "rfm_distributions")
    /\ pc' = "scale"
    /\ UNCHANGED <<session, error, selected_behaviors, raw_table, rfm, rfm_scaled,
                   cluster, segment, segment_counts, segment_summary, daily_counts,
                   monthly_counts, csv_data>>

\* scaler.fit_transform(rfm_norm)
Normalize ==
    /\ pc = "scale"
    /\ rfm # <<>>
    /\ rfm_scaled' = MinMaxScale(RfmNorm(rfm))
    /\ pc' = "kmeans"
    /\ UNCHANGED <<session, error, selected_behaviors, raw_table, rfm, cluster,
                   segment, segment_counts, segment_summary, daily_counts,
                   monthly_counts, csv_data, charts>>

\* check_array: "Found array with 0 sample(s) ... a minimum of 1 is required"
NormalizeFails ==
    /\ pc = "scale"
    /\ rfm = <<>>
    /\ error' = "ValueError: 0 samples"
    /\ pc' = "failed"
    /\ UNCHANGED <<session, selected_behaviors, raw_table, rfm, rfm_scaled, cluster,
                   segment, segment_counts, segment_summary, daily_counts,
                   monthly_counts, csv_data, charts>>

\* rfm['cluster'] = kmeans.fit_predict(rfm_scaled)
KMeansFit ==
    /\ pc = "kmeans"
    /\ Len(rfm_scaled) >= n_clusters
    /\ \E r \in RandomStreams : cluster' = fit_predict(rfm_scaled, r)
    /\ pc' = "boxplot"
    /\ UNCHANGED <<session, error, selected_behaviors, raw_table, rfm, rfm_scaled,
                   segment, segment_counts, segment_summary, daily_counts,
                   monthly_counts, csv_data, charts>>

\* a fit that goes on with fewer samples than clusters, one cluster per sample
KMeansFitsAnyway ==
    /\ pc = "kmeans"
    /\ Len(rfm_scaled) < n_clusters
    /\ cluster' = [i \in DOMAIN rfm_scaled |-> i - 1]
    /\ pc' = "boxplot"
    /\ UNCHANGED <<session, error, selected_behaviors, raw_table, rfm, rfm_scaled,
                   segment, segment_counts, segment_summary, daily_counts,
                   monthly_counts, csv_data, charts>>

\* "n_samples=... should be >= n_clusters=4"
KMeansFails ==
    /\ pc = "kmeans"
    /\ Len(rfm_scaled) < n_clusters
    /\ error' = "ValueError: n_samples < n_clusters"
    /\ pc' = "failed"
    /\ UNCHANGED <<session, selected_behaviors, raw_table, rfm, rfm_scaled, cluster,
                   segment, segment_counts, segment_summary, daily_counts,
                   monthly_counts, csv_data, charts>>

Boxplot ==
    /\ pc = "boxplot"
    /\ charts' = Append(charts, "boxplot_by_cluster")
    /\ pc' = "pie"
    /\ UNCHANGED <<session, error, selected_behaviors, raw_table, rfm, rfm_scaled,
                   cluster, segment, segment_counts, segment_summary, daily_counts,
                   monthly_counts, csv_data>>

PieChart ==
    /\ pc = "pie"
    /\ charts' = Append(charts, "cluster_distribution")
    /\ pc' = "labeling"
    /\ UNCHANGED <<session, error, selected_behaviors, raw_table, rfm, rfm_scaled,
                   cluster, segment, segment_counts, segment_summary, daily_counts,
                   monthly_counts, csv_data>>

\* rfm['segment'] = rfm['cluster'].map(labels)
SegmentLabeling ==
    /\ pc = "labeling"
    /\ segment' = MapLabels(labels, cluster)
    /\ pc' = "bar"
    /\ UNCHANGED <<session, error, selected_behaviors, raw_table, rfm, rfm_scaled,
                   cluster, segment_counts, segment_summary, daily_counts,
                   monthly_counts, csv_data, charts>>

BarPlot ==
    /\ pc = "bar"
    /\ segment_counts' = ValueCounts(segment)
    /\ charts' = Append(charts, "segment_distribution")
    /\ pc' = "summary"
    /\ UNCHANGED <<session, error, selected_behaviors, raw_table, rfm, rfm_scaled,
                   cluster, segment, segment_summary, daily_counts, monthly_counts,
                   csv_data>>

SegmentSummaryStep ==
    /\ pc = "summary"
    /\ segment_summary' = SegmentSummary(rfm, segment)
    /\ charts' = Append(charts, "segment_heatmap")
    /\ pc' = "timeseries"
    /\ UNCHANGED <<session, error, selected_behaviors, raw_table, rfm, rfm_scaled,
                   cluster, segment, segment_counts, daily_counts, monthly_counts,
                   csv_data>>

TimeSeries ==
    /\ pc = "timeseries"
    /\ daily_counts' = DailyCounts
    /\ monthly_counts' = MonthlyCounts
    /\ charts' = charts \o <<"daily_purchases", "monthly_purchases">>
    /\ pc' = "download"
    /\ UNCHANGED <<session, error, selected_behaviors, raw_table, rfm, rfm_scaled,
                   cluster, segment, segment_counts, segment_summary, csv_data>>

\* the clustered-data download, then the metrics, the pairplot expander and the
\* static strategy table, none of which can fail once the table is clustered
Download ==
    /\ pc = "download"
    /\ csv_data' = ClusteredRows
    /\ charts' = Append(charts, "pairplot")
    /\ pc' = "done"
    /\ UNCHANGED <<session, error, selected_behaviors, raw_table, rfm, rfm_scaled,
                   cluster, segment, segment_counts, segment_summary, daily_counts,
                   monthly_counts>>

\* A widget interaction: Streamlit stores the new selection and runs the script
\* again from the top; st.cache_data keeps df.
Rerun ==
    /\ pc \in {"done", "failed"}
    /\ run < MaxRuns
    /\ \E sel \in SUBSET behavior_types : widget' = [touched |-> TRUE, value |-> sel]
    /\ run' = run + 1
    /\ prev' = [pc |-> pc, error |-> error,
                selected_behaviors |-> selected_behaviors, rfm |-> rfm,
                cluster |-> cluster, segment |-> segment,
                segment_summary |-> segment_summary,
                daily_counts |-> daily_counts, monthly_counts |-> monthly_counts]
    /\ pc' = "sidebar"
    /\ error' = "none"
    /\ selected_behaviors' = {}
    /\ raw_table' = <<>>
    /\ rfm' = <<>>
    /\ rfm_scaled' = <<>>
    /\ cluster' = <<>>
    /\ segment' = <<>>
    /\ segment_counts' = <<>>
    /\ segment_summary' = <<>>
    /\ daily_counts' = <<>>
    /\ monthly_counts' = <<>>
    /\ csv_data' = <<>>
    /\ charts' = <<>>
    /\ UNCHANGED <<df, seededStream>>

Next ==
    \/ Sidebar
    \/ RawDataset
    \/ RFMAnalysis
    \/ Histograms
    \/ Normalize
    \/ NormalizeFails
    \/ KMeansFit
    \/ KMeansFails
    \/ Boxplot
    \/ PieChart
    \/ SegmentLabeling
    \/ BarPlot
    \/ SegmentSummaryStep
    \/ TimeSeries
    \/ Download
    \/ Rerun

Spec == Init /\ [][Next]_vars

-----------------------------------------------------------------------------
(* What the claims speak of, read off the loaded frame and the run.        *)

PurchaseRows(u) ==
    {i \in DOMAIN df : df[i].user_id = u /\ df[i].behavior_type = "buy"}
AllPurchaseRows == {i \in DOMAIN df : df[i].behavior_type = "buy"}
UserIds == {df[i].user_id : i \in DOMAIN df}
Buyers == {u \in UserIds : PurchaseRows(u) # {}}
LastBuy(u) == SetMax({df[i].timestamp : i \in PurchaseRows(u)})
LatestBuy == SetMax({df[i].timestamp : i \in AllPurchaseRows})

RECURSIVE SumOver(_, _)
SumOver(f, S) ==
    IF S = {} THEN 0 ELSE LET x == CHOOSE x \in S : TRUE IN f[x] + SumOver(f, S \ {x})

RfmBuilt == pc \notin {"sidebar", "raw", "rfm"}
Scaled == pc \in {"kmeans", "boxplot", "pie", "labeling", "bar", "summary",
                  "timeseries", "download", "done"}
         \/ (pc = "failed" /\ error = "ValueError: n_samples < n_clusters")
Clustered == pc \in {"boxplot", "pie", "labeling", "bar", "summary",
                     "timeseries", "download", "done"}
Labeled == pc \in {"bar", "summary", "timeseries", "download", "done"}
Counted == pc \in {"summary", "timeseries", "download", "done"}
SegmentNames == {"VIP", "Loyal", "Churn Risk", "At_Risk"}

\* C1: the RFM table holds exactly one row for each user with a buy record and
\* none for any other user; the row's frequency is the number of that user's buy
\* records, so it is at least 1 and the frequencies sum to the number of buy
\* records.
C1_OneRowPerBuyer ==
    RfmBuilt =>
        /\ \A u \in UserIds :
              Cardinality({i \in DOMAIN rfm : rfm[i].user_id = u})
                  = IF u \in Buyers THEN 1 ELSE 0
        /\ \A i \in DOMAIN rfm :
              /\ rfm[i].user_id \in Buyers
              /\ rfm[i].frequency = Cardinality(PurchaseRows(rfm[i].user_id))
              /\ rfm[i].frequency >= 1
        /\ SumOver([i \in DOMAIN rfm |-> rfm[i].frequency], DOMAIN rfm)
              = Cardinality(AllPurchaseRows)

\* a table with a repeat buyer beside a user who only viewed
C1_Witness ==
    /\ RfmBuilt
    /\ \E i \in DOMAIN rfm : rfm[i].frequency > 1
    /\ UserIds \ Buyers # {}
    /\ Len(rfm) >= 2

\* C2: every row's recency is the whole number of days from the user's last buy
\* timestamp to the latest buy timestamp of the frame, it is never negative, and
\* it is 0 for every user whose last purchase is the latest one.
C2_RecencyWholeDays ==
    RfmBuilt =>
        \A i \in DOMAIN rfm :
            LET gap == LatestBuy - LastBuy(rfm[i].user_id)
            IN  /\ rfm[i].recency >= 0
                /\ rfm[i].recency * SecondsPerDay <= gap
                /\ gap < (rfm[i].recency + 1) * SecondsPerDay
                /\ (gap = 0 => rfm[i].recency = 0)

\* a most recent purchaser, a user a full day behind and one half a day behind,
\* while a page view is later than every purchase
C2_Witness ==
    /\ RfmBuilt
    /\ \E i, j, k \in DOMAIN rfm :
          /\ LastBuy(rfm[i].user_id) = LatestBuy /\ rfm[i].recency = 0
          /\ rfm[j].recency = 1
          /\ LatestBuy - LastBuy(rfm[k].user_id) = HalfDay /\ rfm[k].recency = 0
    /\ \E r \in DOMAIN df : df[r].timestamp > LatestBuy

\* C3: with no buy record the run fails with the no-data condition before any
\* clustering fit, and no chart is rendered at any point of the run.
C3_NoChartWithoutPurchases ==
    AllPurchaseRows = {} =>
        /\ charts = <<>>
        /\ cluster = <<>>
        /\ pc # "done"
        /\ (pc = "failed" => error = "ValueError: 0 samples")

\* C4: with 1 to 3 distinct purchasing users the run ends in the
\* insufficient-samples failure at the clustering step: no cluster, no segment,
\* no segment summary and no clustered download ever exist in that run.
C4_TooFewUsersFail ==
    (1 <= Cardinality(Buyers) /\ Cardinality(Buyers) < 4) =>
        /\ ~Clustered
        /\ cluster = <<>> /\ segment = <<>>
        /\ segment_counts = <<>> /\ segment_summary = <<>> /\ csv_data = <<>>
        /\ (pc = "failed" => error = "ValueError: n_samples < n_clusters")

\* three purchasing users, the run halted in KMeans
C4_Witness ==
    /\ Cardinality(Buyers) = 3
    /\ pc = "failed"
    /\ error = "ValueError: n_samples < n_clusters"
    /\ rfm_scaled # <<>>

Permutations == {p \in [0..3 -> 0..3] : \A a, b \in 0..3 : p[a] = p[b] => a = b}
ClusterRows(k) == SortedSeq({i \in DOMAIN cluster : cluster[i] = k})
MeanRecency(k) == QMean([j \in DOMAIN ClusterRows(k) |-> QInt(rfm[ClusterRows(k)[j]].recency)])
MeanFrequency(k) == QMean([j \in DOMAIN ClusterRows(k) |-> QInt(rfm[ClusterRows(k)[j]].frequency)])

\* C5: the segment names follow the clusters' centroids and not their indices:
\* renumbering the cluster ids leaves every user's segment name unchanged, and
\* the cluster of lowest mean recency and highest mean frequency is named VIP.
C5_NamesFollowCentroids ==
    Labeled =>
        /\ \A p \in Permutations :
              MapLabels(labels, [i \in DOMAIN cluster |-> p[cluster[i]]]) = segment
        /\ \A k \in Range(cluster) :
              (\A j \in Range(cluster) \ {k} :
                  /\ QLess(MeanRecency(k), MeanRecency(j))
                  /\ QLess(MeanFrequency(j), MeanFrequency(k)))
              => \A i \in DOMAIN cluster : cluster[i] = k => segment[i] = "VIP"

\* C6: once segmentation is done every user of the RFM table has one cluster id
\* in 0..3 and one of the four segment names, never a missing one, and the
\* per-segment counts sum to the number of distinct purchasing users.
C6_EveryUserSegmented ==
    /\ Clustered =>
          /\ Len(cluster) = Len(rfm)
          /\ \A i \in DOMAIN cluster : cluster[i] \in 0..3
    /\ Labeled =>
          /\ Len(segment) = Len(rfm)
          /\ \A i \in DOMAIN segment : segment[i] \in SegmentNames
    /\ Counted =>
          SumOver(segment_counts, DOMAIN segment_counts) = Cardinality(Buyers)

\* five purchasing users over all four clusters, the counts taken
C6_Witness ==
    /\ pc = "done"
    /\ Cardinality(Buyers) = 5
    /\ Range(cluster) = 0..3
    /\ DOMAIN segment_counts = SegmentNames

ExampleInput ==
    /\ Buyers = 1..5
    /\ Cardinality(PurchaseRows(1)) = 10
    /\ LastBuy(1) = LatestBuy

\* C7 as stated: in the example user 1 has recency 0, frequency 10 and
\* monetary 294.12.
C7_ExampleAsStated ==
    (RfmBuilt /\ ExampleInput) =>
        /\ rfm[1].user_id = 1
        /\ rfm[1].recency = 0
        /\ rfm[1].frequency = 10
        /\ Round2(rfm[1].monetary) = 29412

\* C7 amended: in the example user 1 has recency 0, frequency 10 and monetary
\* 288.24, which is 10 * (98 / 3.4) to two decimals.
C7_ExampleAmended ==
    (RfmBuilt /\ ExampleInput) =>
        /\ rfm[1].user_id = 1
        /\ rfm[1].recency = 0
        /\ rfm[1].frequency = 10
        /\ Round2(rfm[1].monetary) = 28824
        /\ rfm[1].monetary = Q(10 * 98 * 10, 34)

C7_Witness == RfmBuilt /\ ExampleInput /\ Len(rfm) = 5

RawColumn(c) ==
    [i \in DOMAIN rfm |->
        IF c = 1 THEN QInt(rfm[i].recency)
        ELSE IF c = 2 THEN QInt(rfm[i].frequency) ELSE rfm[i].monetary]
ColumnLow(c) == CHOOSE m \in Range(RawColumn(c)) : \A x \in Range(RawColumn(c)) : QLeq(m, x)
ColumnHigh(c) == CHOOSE m \in Range(RawColumn(c)) : \A x \in Range(RawColumn(c)) : QLeq(x, m)

\* C8: each of the three columns is scaled on its own as (x - min) / (max - min):
\* every scaled value is in [0,1], the minimum maps to 0 and the maximum to 1
\* when they differ, and a constant column maps to 0 everywhere without the
\* scaler failing.
C8_MinMaxScaled ==
    /\ Scaled =>
          /\ Len(rfm_scaled) = Len(rfm)
          /\ \A c \in 1..3 : \A i \in DOMAIN rfm :
                LET v == rfm_scaled[i][c]
                    x == RawColumn(c)[i]
                    lo == ColumnLow(c)
                    hi == ColumnHigh(c)
                IN  /\ v.d > 0 /\ 0 <= v.n /\ v.n <= v.d
                    /\ lo # hi => QMul(v, QSub(hi, lo)) = QSub(x, lo)
                    /\ (lo # hi /\ x = lo) => v = QInt(0)
                    /\ (lo # hi /\ x = hi) => v = QInt(1)
                    /\ lo = hi => v = QInt(0)
    /\ (pc = "failed" /\ rfm # <<>>) => error # "ValueError: 0 samples"

\* a constant recency column beside a frequency column with a value strictly
\* between its minimum and its maximum
C8_Witness ==
    /\ Scaled
    /\ Len(rfm) >= 3
    /\ ColumnLow(1) = ColumnHigh(1)
    /\ \E i \in DOMAIN rfm : 0 < rfm_scaled[i][2].n /\ rfm_scaled[i][2].n < rfm_scaled[i][2].d

\* C9: a second run of the pipeline on the same records with the same seed gives
\* every user the cluster id, and so the segment name, of the run before.
C9_SameSeedSameClusters ==
    prev.pc = "done" =>
        /\ Clustered => cluster = prev.cluster
        /\ Labeled => segment = prev.segment

\* two completed runs that spread five users over several clusters
C9_Witness ==
    /\ prev.pc = "done" /\ pc = "done"
    /\ Len(cluster) = 5
    /\ Cardinality(Range(cluster)) >= 3

\* C10: whatever behaviors the sidebar selects, a run over the same records
\* ends as the run before did, with the same RFM table, cluster ids, segment
\* names, segment summary and purchase time series.
C10_SelectionLeavesAnalysisAlone ==
    (prev.pc # "none" /\ pc \in {"done", "failed"}) =>
        /\ pc = prev.pc /\ error = prev.error
        /\ rfm = prev.rfm
        /\ cluster = prev.cluster
        /\ segment = prev.segment
        /\ segment_summary = prev.segment_summary
        /\ daily_counts = prev.daily_counts
        /\ monthly_counts = prev.monthly_counts

\* a completed run with 'buy' deselected after a run with every behavior shown
C10_Witness ==
    /\ prev.pc = "done" /\ pc = "done"
    /\ "buy" \in prev.selected_behaviors
    /\ "buy" \notin selected_behaviors
    /\ Len(raw_table) < Len(df)
    /\ rfm # <<>>

=============================================================================
